---- MODULE Spec2Model ----
(***************************************************************************)
(* A model of pixellens: the NetworkMonitor capture session                *)
(* (src/cli/network_monitor.py) and the TagValidator journey loop and      *)
(* expectation matcher (src/cli/validator.py).                             *)
(*                                                                         *)
(* Python str values are TLA+ strings; Optional[T] values are sequences of *)
(* length at most one (None is the empty sequence); a dict is the sequence *)
(* of its items in insertion order.                                        *)
(***************************************************************************)
EXTENDS Integers, Sequences, FiniteSets, TLC

VARIABLES
    config,        \* config.steps of the ValidationConfig handed to validate_test_case
    pc,            \* where validate_test_case stands
    browser,       \* the local `browser`: "unbound", "open" or "closed"
    stepNo,        \* index in config.steps of the step the for loop is at
    monitors,      \* the NetworkMonitor objects created so far, one per started step
    listeners,     \* the monitors whose handlers are registered with page.on
    summaries,     \* per monitor, the ValidationSummary objects stop() returned
    last_response, \* the last "response" event the page emitted (None before it)
    classified,    \* a URL handed to the classifier and its answers (None if none)
    step_results,  \* the local list step_results
    all_success,   \* the local all_success
    result,        \* what validate_test_case returned (None until it returns)
    log            \* the journey's steps taken so far, in order

vars == <<config, pc, browser, stepNo, monitors, listeners, summaries,
          last_response, classified, step_results, all_success, result, log>>

----------------------------------------------------------------------------
(* Bounds of the model.                                                    *)

MaxSteps == 2
MaxRequests == 2
MaxSessionRequests == 3
MaxCloses == 2

----------------------------------------------------------------------------
(* Python values.                                                          *)

None == <<>>
Some(x) == <<x>>

Range(s) == {s[i] : i \in 1..Len(s)}

(* str.__contains__: p in s *)
Contains(s, p) ==
    \E i \in 1..(Len(s) - Len(p) + 1) : SubSeq(s, i, i + Len(p) - 1) = p

(* first index at or after `from` where p occurs in s, 0 when there is none *)
Find(s, p, from) ==
    LET hits == {i \in from..(Len(s) - Len(p) + 1) : SubSeq(s, i, i + Len(p) - 1) = p}
    IN  IF hits = {} THEN 0 ELSE CHOOSE i \in hits : \A j \in hits : i <= j

LowerChar(c) ==
    CASE c = "A" -> "a" [] c = "B" -> "b" [] c = "C" -> "c" [] c = "D" -> "d"
      [] c = "E" -> "e" [] c = "F" -> "f" [] c = "G" -> "g" [] c = "H" -> "h"
      [] c = "I" -> "i" [] c = "J" -> "j" [] c = "K" -> "k" [] c = "L" -> "l"
      [] c = "M" -> "m" [] c = "N" -> "n" [] c = "O" -> "o" [] c = "P" -> "p"
      [] c = "Q" -> "q" [] c = "R" -> "r" [] c = "S" -> "s" [] c = "T" -> "t"
      [] c = "U" -> "u" [] c = "V" -> "v" [] c = "W" -> "w" [] c = "X" -> "x"
      [] c = "Y" -> "y" [] c = "Z" -> "z" [] OTHER -> c

(* str.lower() *)
RECURSIVE Lower(_)
Lower(s) ==
    IF Len(s) = 0 THEN s
    ELSE LowerChar(SubSeq(s, 1, 1)) \o Lower(SubSeq(s, 2, Len(s)))

(* str.split(sep) for a one-character sep: the fields, empty ones included *)
RECURSIVE Split(_, _)
Split(s, sep) ==
    LET i == Find(s, sep, 1)
    IN  IF i = 0 THEN <<s>>
        ELSE <<SubSeq(s, 1, i - 1)>> \o Split(SubSeq(s, i + 1, Len(s)), sep)

----------------------------------------------------------------------------
(* Regular expressions of network_monitor.py.  A pattern is a set of       *)
(* alternatives (the regex's |); an alternative is the sequence of its     *)
(* literals, consecutive ones separated by .* , and optionally a negative  *)
(* lookahead (?!.*x) after the last literal.                               *)

Alt(lits) == [lits |-> lits, not_ahead |-> None]
AltNotAhead(lits, x) == [lits |-> lits, not_ahead |-> Some(x)]

(* the literals lits match in s, in order, the first one at or after from *)
RECURSIVE LitsMatch(_, _, _, _)
LitsMatch(lits, not_ahead, s, from) ==
    IF lits = <<>>
    THEN not_ahead = None \/ ~Contains(SubSeq(s, from, Len(s)), not_ahead[1])
    ELSE \E i \in from..(Len(s) - Len(lits[1]) + 1) :
            /\ SubSeq(s, i, i + Len(lits[1]) - 1) = lits[1]
            /\ LitsMatch(Tail(lits), not_ahead, s, i + Len(lits[1]))

(* pattern.search(url) *)
Search(pattern, url) ==
    \E a \in pattern : LitsMatch(a.lits, a.not_ahead, url, 1)

tracking_patterns ==
    << {Alt(<<"google-analytics.com">>)},
       {Alt(<<"googletagmanager.com">>)},
       {Alt(<<"gtag/js">>)},
       {Alt(<<"collect?">>)},
       {Alt(<<"facebook.com/tr">>)},
       {Alt(<<"connect.facebook.net">>)},
       {Alt(<<"hotjar.com">>)},
       {Alt(<<"segment.io">>), Alt(<<"segment.com">>)},
       {Alt(<<"mixpanel.com">>)},
       {Alt(<<"amplitude.com">>)},
       {Alt(<<"klaviyo.com">>)},
       {Alt(<<"pinterest.com", "/pixel">>)},
       {Alt(<<"tiktok.com", "/pixel">>)},
       {Alt(<<"linkedin.com", "/px">>)},
       {Alt(<<"twitter.com", "/i/adsct">>)},
       {Alt(<<"snapchat.com", "/tr">>)},
       {Alt(<<"sp.cargurus.com">>)},
       {Alt(<<"snowplowanalytics.com">>)},
       {Alt(<<"/i?">>)},
       {Alt(<<"/track?">>)},
       {Alt(<<"/pixel?">>)},
       {Alt(<<"/analytics?">>)},
       {Alt(<<"/events?">>)},
       {Alt(<<"/beacon">>)},
       {Alt(<<"?utm_">>), Alt(<<"&utm_">>)},
       {Alt(<<"?gclid=">>), Alt(<<"&gclid=">>)},
       {Alt(<<"?fbclid=">>), Alt(<<"&fbclid=">>)} >>

(* the first two items of the dict `classifications` *)
Ga4Rule ==
    [vendor |-> "Google Analytics 4",
     pattern |-> {Alt(<<"gtag">>), Alt(<<"google-analytics.com", "/g/collect">>)}]

UaRule ==
    [vendor |-> "Universal Analytics",
     pattern |-> {AltNotAhead(<<"google-analytics.com", "/collect">>, "/g/")}]

(* its other items, in insertion order *)
OtherVendorRules ==
    << [vendor |-> "Google Tag Manager", pattern |-> {Alt(<<"googletagmanager.com">>)}],
       [vendor |-> "Facebook Pixel",
        pattern |-> {Alt(<<"facebook.com/tr">>), Alt(<<"connect.facebook.net", "fbevents">>)}],
       [vendor |-> "Hotjar", pattern |-> {Alt(<<"hotjar.com">>)}],
       [vendor |-> "Segment",
        pattern |-> {Alt(<<"segment.io">>), Alt(<<"segment.com">>), Alt(<<"cdn.segment.com">>)}],
       [vendor |-> "Mixpanel", pattern |-> {Alt(<<"mixpanel.com">>)}],
       [vendor |-> "Amplitude", pattern |-> {Alt(<<"amplitude.com">>)}],
       [vendor |-> "Klaviyo", pattern |-> {Alt(<<"klaviyo.com">>)}],
       [vendor |-> "Pinterest", pattern |-> {Alt(<<"pinterest.com", "/pixel">>)}],
       [vendor |-> "TikTok", pattern |-> {Alt(<<"tiktok.com", "/pixel">>)}],
       [vendor |-> "LinkedIn", pattern |-> {Alt(<<"linkedin.com", "/px">>)}],
       [vendor |-> "Twitter", pattern |-> {Alt(<<"twitter.com", "/i/adsct">>)}],
       [vendor |-> "Snapchat", pattern |-> {Alt(<<"snapchat.com", "/tr">>)}],
       [vendor |-> "Snowplow",
        pattern |-> {Alt(<<"sp.cargurus.com">>), Alt(<<"snowplowanalytics.com">>),
                     Alt(<<"/i?">>)}] >>

(* mutant: Universal Analytics is declared before Google Analytics 4 *)
classifications_legacy_first == <<UaRule, Ga4Rule>> \o OtherVendorRules

(* the dict `classifications`, in insertion order *)
classifications == <<Ga4Rule, UaRule>> \o OtherVendorRules

is_tracking_request(url) ==
    \E k \in 1..Len(tracking_patterns) : Search(tracking_patterns[k], url)

(* mutant: the loop keeps the last vendor whose pattern matches *)
classify_pixel_last_match(url) ==
    LET hits == {k \in 1..Len(classifications) : Search(classifications[k].pattern, url)}
    IN  IF hits = {} THEN "Generic Tracking"
        ELSE classifications[CHOOSE k \in hits : \A j \in hits : j <= k].vendor

classify_pixel(url) ==
    LET hits == {k \in 1..Len(classifications) : Search(classifications[k].pattern, url)}
    IN  IF hits = {} THEN "Generic Tracking"
        ELSE classifications[CHOOSE k \in hits : \A j \in hits : k <= j].vendor

----------------------------------------------------------------------------
(* The URLs and response statuses of the model's network events.           *)

PurchaseUrl == "https://facebook.com/tr?ev=Purchase"
ViewUrl == "https://facebook.com/tr?ev=ViewContent"
ScriptUrl == "https://example.com/app.js"

(* the requests a page of a journey of Spec sends *)
JourneyUrls == {PurchaseUrl}
JourneyStatuses == {200}

(* the requests and responses of one capture session in SpecMonitor *)
MonitorUrls == {PurchaseUrl, ViewUrl, ScriptUrl}
MonitorStatuses == {200, 404}

(* the requests of the capture session of SpecSession *)
TagManagerUrl == "https://www.googletagmanager.com/gtm.js?id=1"
SessionUrls == {PurchaseUrl, TagManagerUrl, ScriptUrl}

(* the requests captured before a step is validated in SpecMatcher *)
MatcherUrls ==
    { "https://facebook.com/tr?ev=Purchase&id=1",
      "https://facebook.com/tr?ev=ViewContent&ev=Purchase",
      "https://facebook.com/tr?ev=",
      "https://www.googletagmanager.com/gtm.js?id=1",
      "https://www.google-analytics.com/g/collect?ev=Purchase+Done",
      "https://example.com/app.js?ev=Purchase" }

Urls == JourneyUrls \cup MonitorUrls \cup MatcherUrls

(* is_tracking_request and classify_pixel on the model's URLs, evaluated   *)
(* once *)
IsTracking == [u \in Urls |-> is_tracking_request(u)]
VendorOf == [u \in Urls |-> classify_pixel(u)]

----------------------------------------------------------------------------
(* urllib.parse, as _validate_step_pixels uses it.                         *)

(* urlparse(url).query: the fragment is cut at the first #, then the query *)
(* is what follows the first ? *)
UrlQuery(url) ==
    LET h == Find(url, "#", 1)
        u == IF h = 0 THEN url ELSE SubSeq(url, 1, h - 1)
        q == Find(u, "?", 1)
    IN  IF q = 0 THEN "" ELSE SubSeq(u, q + 1, Len(u))

(* the %XX escapes the model decodes *)
HexChar(xx) ==
    CASE xx = "20" -> Some(" ") [] xx = "26" -> Some("&")
      [] xx = "2B" -> Some("+") [] xx = "3D" -> Some("=")
      [] xx = "25" -> Some("%") [] OTHER -> None

(* unquote(s.replace("+", " ")) *)
RECURSIVE UnquotePlus(_)
UnquotePlus(s) ==
    IF Len(s) = 0 THEN s
    ELSE LET c == SubSeq(s, 1, 1)
         IN  IF c = "+" THEN " " \o UnquotePlus(SubSeq(s, 2, Len(s)))
             ELSE IF c = "%" /\ Len(s) >= 3 /\ HexChar(SubSeq(s, 2, 3)) # None
             THEN HexChar(SubSeq(s, 2, 3))[1] \o UnquotePlus(SubSeq(s, 4, Len(s)))
             ELSE c \o UnquotePlus(SubSeq(s, 2, Len(s)))

(* parse_qsl(qs) with keep_blank_values=False, strict_parsing=False: the   *)
(* (name, value) pairs of the &-separated fields; a field without = and a  *)
(* field with a blank value are dropped *)
RECURSIVE FieldsToPairs(_)
FieldsToPairs(fields) ==
    IF fields = <<>> THEN <<>>
    ELSE LET f == fields[1]
             e == Find(f, "=", 1)
             rest == FieldsToPairs(Tail(fields))
         IN  IF Len(f) = 0 \/ e = 0 \/ e = Len(f) THEN rest
             ELSE <<[name |-> UnquotePlus(SubSeq(f, 1, e - 1)),
                     value |-> UnquotePlus(SubSeq(f, e + 1, Len(f)))]>> \o rest

parse_qsl(qs) == FieldsToPairs(Split(qs, "&"))

(* parse_qs(qs).get(name, []): the values parsed for name, in order *)
RECURSIVE ValuesOf(_, _)
ValuesOf(pairs, name) ==
    IF pairs = <<>> THEN <<>>
    ELSE (IF pairs[1].name = name THEN <<pairs[1].value>> ELSE <<>>)
         \o ValuesOf(Tail(pairs), name)

parse_qs_get(qs, name) == ValuesOf(parse_qsl(qs), name)

----------------------------------------------------------------------------
(* NetworkMonitor (network_monitor.py).                                    *)

(* NetworkMonitor.__init__ *)
NewMonitor == [requests |-> <<>>, current_phase |-> "page_load"]

(* the TrackedRequest _capture_request builds *)
NewTrackedRequest(url, phase) ==
    [url |-> url, phase |-> phase, is_tracking |-> IsTracking[url],
     status_code |-> None, response_headers |-> None, successful |-> None]

(* mutant: every request is tagged page_load *)
capture_request_page_load(m, url) ==
    [m EXCEPT !.requests = Append(@, NewTrackedRequest(url, "page_load"))]

(* _capture_request: the monitor after the request event *)
capture_request(m, url) ==
    [m EXCEPT !.requests = Append(@, NewTrackedRequest(url, m.current_phase))]

(* dict(response.headers): the model's responses carry no header *)
ResponseHeaders == <<>>

(* response.ok of the automation library *)
ResponseOk(status) == status = 0 \/ (status >= 200 /\ status <= 299)

(* mutant: the loop scans self.requests oldest first *)
FindUnresolvedOldestFirst(requests, url) ==
    LET hits == {i \in 1..Len(requests) :
                    requests[i].url = url /\ requests[i].status_code = None}
    IN  IF hits = {} THEN 0 ELSE CHOOSE i \in hits : \A j \in hits : i <= j

(* mutant: the loop stops at the newest request with this url, resolved or *)
(* not *)
FindNewestWithUrl(requests, url) ==
    LET hits == {i \in 1..Len(requests) : requests[i].url = url}
    IN  IF hits = {} THEN 0 ELSE CHOOSE i \in hits : \A j \in hits : j <= i

(* the request the loop over reversed(self.requests) stops at: the newest  *)
(* one with this url and status_code None; 0 when the loop runs out *)
FindUnresolved(requests, url) ==
    LET hits == {i \in 1..Len(requests) :
                    requests[i].url = url /\ requests[i].status_code = None}
    IN  IF hits = {} THEN 0 ELSE CHOOSE i \in hits : \A j \in hits : j <= i

(* mutant: a response that finds no waiting request is logged as a request *)
(* of its own *)
capture_response_logging_orphans(m, url, status) ==
    IF ~IsTracking[url] THEN m
    ELSE LET k == FindUnresolved(m.requests, url)
         IN  IF k = 0
             THEN [m EXCEPT !.requests =
                      Append(@, [NewTrackedRequest(url, m.current_phase)
                                    EXCEPT !.status_code = Some(status)])]
             ELSE [m EXCEPT !.requests[k].status_code = Some(status),
                            !.requests[k].response_headers = Some(ResponseHeaders),
                            !.requests[k].successful = Some(ResponseOk(status))]

(* mutant: the response of any url is attached *)
capture_response_any_url(m, url, status) ==
    LET k == FindUnresolved(m.requests, url)
    IN  IF k = 0 THEN m
        ELSE [m EXCEPT !.requests[k].status_code = Some(status),
                       !.requests[k].response_headers = Some(ResponseHeaders),
                       !.requests[k].successful = Some(ResponseOk(status))]

(* _capture_response: the monitor after the response event *)
capture_response(m, url, status) ==
    IF ~IsTracking[url] THEN m
    ELSE LET k == FindUnresolved(m.requests, url)
         IN  IF k = 0 THEN m
             ELSE [m EXCEPT !.requests[k].status_code = Some(status),
                            !.requests[k].response_headers = Some(ResponseHeaders),
                            !.requests[k].successful = Some(ResponseOk(status))]

(* mutant: the call switches between the two phases *)
start_interaction_phase_toggling(m) ==
    [m EXCEPT !.current_phase =
        IF @ = "page_load" THEN "user_interaction" ELSE "page_load"]

(* start_interaction_phase *)
start_interaction_phase(m) == [m EXCEPT !.current_phase = "user_interaction"]

(* get_tracking_requests: the indices, in self.requests, of the tracking   *)
(* requests (the list holds the TrackedRequest objects themselves) *)
get_tracking_requests(m) ==
    LET F[i \in 0..Len(m.requests)] ==
            IF i = 0 THEN <<>>
            ELSE IF m.requests[i].is_tracking THEN Append(F[i - 1], i) ELSE F[i - 1]
    IN  F[Len(m.requests)]

(* mutant: the phase filter runs over every request of the log *)
get_requests_by_phase(m, phase) ==
    SelectSeq([i \in 1..Len(m.requests) |-> i],
              LAMBDA i : m.requests[i].phase = phase)

(* get_tracking_requests_by_phase *)
get_tracking_requests_by_phase(m, phase) ==
    SelectSeq(get_tracking_requests(m), LAMBDA i : m.requests[i].phase = phase)

(* mutant: a request is put at the head of its vendor's list *)
RECURSIVE GroupByVendorNewestFirst(_, _, _)
GroupByVendorNewestFirst(m, idxs, acc) ==
    IF idxs = <<>> THEN acc
    ELSE LET vendor == VendorOf[m.requests[idxs[1]].url]
             at == {k \in 1..Len(acc) : acc[k].vendor = vendor}
             next == IF at = {}
                     THEN Append(acc, [vendor |-> vendor, requests |-> <<idxs[1]>>])
                     ELSE LET k == CHOOSE k \in at : TRUE
                          IN  [acc EXCEPT ![k].requests = <<idxs[1]>> \o @]
         IN  GroupByVendorNewestFirst(m, Tail(idxs), next)

(* the grouping loop of get_summary: pixels_by_vendor as the sequence of   *)
(* its (vendor, requests) items in insertion order *)
RECURSIVE GroupByVendor(_, _, _)
GroupByVendor(m, idxs, acc) ==
    IF idxs = <<>> THEN acc
    ELSE LET vendor == VendorOf[m.requests[idxs[1]].url]
             at == {k \in 1..Len(acc) : acc[k].vendor = vendor}
             next == IF at = {}
                     THEN Append(acc, [vendor |-> vendor, requests |-> <<idxs[1]>>])
                     ELSE LET k == CHOOSE k \in at : TRUE
                          IN  [acc EXCEPT ![k].requests = Append(@, idxs[1])]
         IN  GroupByVendor(m, Tail(idxs), next)

(* _get_timeline: one dict per tracking request, its values copied *)
get_timeline(m) ==
    LET t == get_tracking_requests(m)
    IN  [k \in 1..Len(t) |->
            [vendor |-> VendorOf[m.requests[t[k]].url],
             url |-> m.requests[t[k]].url,
             phase |-> m.requests[t[k]].phase,
             successful |-> m.requests[t[k]].successful]]

(* get_summary *)
get_summary(m) ==
    [total_requests |-> Len(m.requests),
     tracking_requests |-> Len(get_tracking_requests(m)),
     page_load_pixels |-> Len(get_tracking_requests_by_phase(m, "page_load")),
     interaction_pixels |-> Len(get_tracking_requests_by_phase(m, "user_interaction")),
     pixels_by_vendor |-> GroupByVendor(m, get_tracking_requests(m), <<>>),
     timeline |-> get_timeline(m)]

(* stop: nothing of the monitor changes, get_summary() is returned *)
stop(m) == get_summary(m)

----------------------------------------------------------------------------
(* TagValidator: the expectation matcher (validator.py).                   *)

(* the outcome of a Python call: a value, or an exception with its str() *)
Ok(v) == [raised |-> FALSE, value |-> v]
Raise(msg) == [raised |-> TRUE, error |-> msg]

(* the url_params loop of _parse_expected_pixels for one vendor's config *)
RECURSIVE ParseUrlParams(_)
ParseUrlParams(param_configs) ==
    IF param_configs = <<>> THEN Ok(<<>>)
    ELSE LET pcfg == param_configs[1]
         IN  IF "name" \notin pcfg.keys THEN Raise("'name'")
             ELSE IF "value" \notin pcfg.keys THEN Raise("'value'")
             ELSE LET rest == ParseUrlParams(Tail(param_configs))
                  IN  IF rest.raised THEN rest
                      ELSE Ok(<<[name |-> pcfg.name, value |-> pcfg.value]>> \o rest.value)

RECURSIVE ParseItems(_)
ParseItems(items) ==
    IF items = <<>> THEN Ok(<<>>)
    ELSE LET cfg == items[1].config
             ps == IF cfg.keys # {} /\ "url_params" \in cfg.keys
                   THEN ParseUrlParams(cfg.url_params) ELSE Ok(<<>>)
         IN  IF ps.raised THEN ps
             ELSE LET rest == ParseItems(Tail(items))
                  IN  IF rest.raised THEN rest
                      ELSE Ok(<<[vendor |-> items[1].vendor, url_params |-> ps.value]>>
                              \o rest.value)

(* _parse_expected_pixels; a list has no .items() *)
parse_expected_pixels(expect_pixels_config) ==
    IF expect_pixels_config.type = "list"
    THEN Raise("'list' object has no attribute 'items'")
    ELSE ParseItems(expect_pixels_config.items)

(* mutant: the expected label must be contained in the detected one *)
VendorMatchesOneWay(expected_vendor, vendor) ==
    Contains(Lower(vendor), Lower(expected_vendor))

(* the test of lines 280-281 and 300-301 *)
VendorMatches(expected_vendor, vendor) ==
    \/ Contains(Lower(vendor), Lower(expected_vendor))
    \/ Contains(Lower(expected_vendor), Lower(vendor))

(* all_params_match for one request *)
AllParamsMatch(url_params, url) ==
    \A k \in 1..Len(url_params) :
        \E v \in Range(parse_qs_get(UrlQuery(url), url_params[k].name)) :
            v = url_params[k].value

(* param_validation_passed after the loop over pixels_by_vendor *)
ParamValidationPassed(expected_pixel, m, pixels_by_vendor) ==
    \E k \in 1..Len(pixels_by_vendor) :
        /\ VendorMatches(expected_pixel.vendor, pixels_by_vendor[k].vendor)
        /\ \E i \in Range(pixels_by_vendor[k].requests) :
               AllParamsMatch(expected_pixel.url_params, m.requests[i].url)

(* whether the loop body appends expected_pixel to passed_pixels *)
PixelPasses(expected_pixel, m, pixels_by_vendor) ==
    LET vendor_found == \E k \in 1..Len(pixels_by_vendor) :
                            VendorMatches(expected_pixel.vendor, pixels_by_vendor[k].vendor)
    IN  IF ~vendor_found THEN FALSE
        ELSE IF expected_pixel.url_params = <<>> THEN TRUE
        ELSE ParamValidationPassed(expected_pixel, m, pixels_by_vendor)

(* the loop over expected_pixels: (passed_pixels, failed_pixels) *)
RECURSIVE MatchLoop(_, _, _, _, _)
MatchLoop(expected_pixels, m, pixels_by_vendor, passed, failed) ==
    IF expected_pixels = <<>> THEN [passed |-> passed, failed |-> failed]
    ELSE IF PixelPasses(expected_pixels[1], m, pixels_by_vendor)
    THEN MatchLoop(Tail(expected_pixels), m, pixels_by_vendor,
                   Append(passed, expected_pixels[1].vendor), failed)
    ELSE MatchLoop(Tail(expected_pixels), m, pixels_by_vendor,
                   passed, Append(failed, expected_pixels[1].vendor))

(* mutant: one failed vendor is let through *)
StepSuccessOffByOne(failed_pixels) == Len(failed_pixels) <= 1

(* success = len(failed_pixels) == 0 *)
StepSuccess(failed_pixels) == Len(failed_pixels) = 0

(* _validate_step_pixels(step, step_summary); m is the monitor that owns   *)
(* the TrackedRequest objects step_summary refers to *)
validate_step_pixels(step, m, step_summary) ==
    LET parsed == parse_expected_pixels(step.expect_pixels)
    IN  IF parsed.raised THEN parsed
        ELSE LET r == MatchLoop(parsed.value, m, step_summary.pixels_by_vendor, <<>>, <<>>)
             IN  Ok([step_name |-> step.name,
                     action |-> step.action,
                     expected_pixels |-> [k \in 1..Len(parsed.value) |-> parsed.value[k].vendor],
                     detected_pixels |-> [k \in 1..Len(step_summary.pixels_by_vendor) |->
                                             step_summary.pixels_by_vendor[k].vendor],
                     passed_pixels |-> r.passed,
                     failed_pixels |-> r.failed,
                     success |-> StepSuccess(r.failed),
                     error |-> None])

----------------------------------------------------------------------------
(* Inputs: the configurations, URLs and response statuses the model draws  *)
(* from.                                                                   *)

Dict(items) == [type |-> "dict", items |-> items]
(* expect_pixels as _load_test_case passes it when the step omits it: [] *)
EmptyList == [type |-> "list", items |-> <<>>]

NoConfig == [keys |-> {}, url_params |-> <<>>]
WithUrlParams(ps) == [keys |-> {"url_params"}, url_params |-> ps]
Param(n, v) == [keys |-> {"name", "value"}, name |-> n, value |-> v]
ParamWithoutValue(n) == [keys |-> {"name"}, name |-> n, value |-> ""]

Expect(vendor, cfg) == [vendor |-> vendor, config |-> cfg]
Step(name, action, expect_pixels) ==
    [name |-> name, action |-> action, expect_pixels |-> expect_pixels]

(* the steps a journey of Spec is made of *)
JourneySteps ==
    { Step("load", "load_page", Dict(<<Expect("Facebook", NoConfig)>>)),
      Step("buy", "Click the buy button",
           Dict(<<Expect("facebook",
                         WithUrlParams(<<Param("ev", "Purchase")>>))>>)),
      Step("scroll", "Scroll down", Dict(<<>>)),
      Step("omitted", "load_page", EmptyList) }

RECURSIVE SeqsUpTo(_, _)
SeqsUpTo(S, n) ==
    IF n = 0 THEN {<<>>}
    ELSE LET shorter == SeqsUpTo(S, n - 1)
         IN  shorter \cup {Append(q, x) : q \in shorter, x \in S}

----------------------------------------------------------------------------
(* validate_test_case (validator.py, lines 97-198).                        *)

(* log with the events evs of the current step appended *)
Logged(evs) == log \o [k \in 1..Len(evs) |-> [ev |-> evs[k], step |-> stepNo]]

(* the ValidationResult of the except branch, lines 192-198 *)
ErrorResult(msg) == [success |-> FALSE, step_results |-> <<>>, error |-> Some(msg)]

(* the ValidationResult of lines 174-180 *)
FinalResult(ok, results) == [success |-> ok, step_results |-> results, error |-> None]

(* mutant: the except branch reports the declared vendors as failed *)
step_exception_handler_failing(step, msg) ==
    LET parsed == parse_expected_pixels(step.expect_pixels)
    IN  IF parsed.raised THEN parsed
        ELSE Ok([step_name |-> step.name,
                 action |-> step.action,
                 expected_pixels |-> parsed.value,
                 detected_pixels |-> <<>>,
                 passed_pixels |-> <<>>,
                 failed_pixels |-> [k \in 1..Len(parsed.value) |-> parsed.value[k].vendor],
                 success |-> FALSE,
                 error |-> Some(msg)])

(* the StepResult of the step's except branch, lines 157-166; evaluating   *)
(* its expected_pixels argument may raise in turn *)
step_exception_handler(step, msg) ==
    LET parsed == parse_expected_pixels(step.expect_pixels)
    IN  IF parsed.raised THEN parsed
        ELSE Ok([step_name |-> step.name,
                 action |-> step.action,
                 expected_pixels |-> parsed.value,
                 detected_pixels |-> <<>>,
                 passed_pixels |-> <<>>,
                 failed_pixels |-> <<>>,
                 success |-> FALSE,
                 error |-> Some(msg)])

Init ==
    /\ config \in SeqsUpTo(JourneySteps, MaxSteps)
    /\ pc = "start"
    /\ browser = "unbound"
    /\ stepNo = 0
    /\ monitors = <<>>
    /\ listeners = {}
    /\ summaries = <<>>
    /\ last_response = None
    /\ classified = None
    /\ step_results = <<>>
    /\ all_success = TRUE
    /\ result = None
    /\ log = <<>>

(* line 109: async with async_playwright() as p, outside the try *)
EnterPlaywright ==
    /\ pc = "start"
    /\ \E started \in BOOLEAN :
          IF started
          THEN pc' = "launch" /\ log' = log
          ELSE pc' = "raised" /\ log' = Logged(<<"playwright_raised">>)
    /\ UNCHANGED <<classified, config, browser, stepNo, monitors, listeners, summaries,
                   last_response, step_results, all_success, result>>

(* lines 111-116, and the except branch 182-198 when one of them raises *)
LaunchBrowser ==
    /\ pc = "launch"
    /\ \E outcome \in {"page", "launch_raises", "new_page_raises"} :
          CASE outcome = "page" ->
                 /\ browser' = "open"
                 /\ pc' = "loop"
                 /\ stepNo' = 1
                 /\ result' = result
                 /\ log' = Logged(<<"page">>)
            [] outcome = "launch_raises" ->
                 /\ browser' = browser
                 /\ pc' = "done"
                 /\ stepNo' = stepNo
                 /\ result' = Some(ErrorResult("launch failed"))
                 /\ log' = Logged(<<"fatal">>)
            [] outcome = "new_page_raises" ->
                 /\ browser' = "closed"
                 /\ pc' = "done"
                 /\ stepNo' = stepNo
                 /\ result' = Some(ErrorResult("new_page failed"))
                 /\ log' = Logged(<<"fatal">>)
    /\ step_results' = <<>>
    /\ all_success' = TRUE
    /\ UNCHANGED <<classified, config, monitors, listeners, summaries, last_response>>

(* mutant: the loop opens a session while the step before still settles *)
StartStepEarly ==
    /\ pc \in {"loop", "sleep"}
    /\ stepNo <= Len(config)
    /\ monitors' = Append(monitors, NewMonitor)
    /\ listeners' = listeners \cup {Len(monitors) + 1}
    /\ summaries' = Append(summaries, <<>>)
    /\ pc' = "action"
    /\ log' = Logged(<<"open">>)
    /\ UNCHANGED <<classified, config, browser, stepNo, last_response, step_results,
                   all_success, result>>

(* mutant: before a free-text action the loop calls the monitor's          *)
(* start_interaction_phase *)
StartStepInteractive ==
    /\ pc = "loop"
    /\ stepNo <= Len(config)
    /\ monitors' = Append(monitors,
                          IF Lower(config[stepNo].action) = "load_page"
                          THEN NewMonitor
                          ELSE start_interaction_phase(NewMonitor))
    /\ listeners' = listeners \cup {Len(monitors) + 1}
    /\ summaries' = Append(summaries, <<>>)
    /\ pc' = "action"
    /\ log' = Logged(<<"open">>)
    /\ UNCHANGED <<classified, config, browser, stepNo, last_response, step_results,
                   all_success, result>>

(* lines 118-125: the loop takes the next step, creates its monitor and    *)
(* monitor.start registers the monitor's two handlers with page.on; the    *)
(* coroutine then waits in _execute_step_action *)
StartStep ==
    /\ pc = "loop"
    /\ stepNo <= Len(config)
    /\ monitors' = Append(monitors, NewMonitor)
    /\ listeners' = listeners \cup {Len(monitors) + 1}
    /\ summaries' = Append(summaries, <<>>)
    /\ pc' = "action"
    /\ log' = Logged(<<"open">>)
    /\ UNCHANGED <<classified, config, browser, stepNo, last_response, step_results,
                   all_success, result>>

(* the model's bound on the requests a monitor holds *)
RequestsBelow(n) == \A i \in 1..Len(monitors) : Len(monitors[i].requests) < n

(* the page emits "request": every registered _capture_request runs *)
PageRequest(url) ==
    /\ pc \in {"action", "sleep"}
    /\ monitors' = [i \in 1..Len(monitors) |->
                       IF i \in listeners THEN capture_request(monitors[i], url)
                       ELSE monitors[i]]
    /\ UNCHANGED <<classified, config, pc, browser, stepNo, listeners, summaries,
                   last_response, step_results, all_success, result, log>>

(* the page emits "response": every registered _capture_response runs *)
PageResponse(url, status) ==
    /\ pc \in {"action", "sleep"}
    /\ monitors' = [i \in 1..Len(monitors) |->
                       IF i \in listeners THEN capture_response(monitors[i], url, status)
                       ELSE monitors[i]]
    /\ last_response' = Some([url |-> url, status |-> status])
    /\ UNCHANGED <<classified, config, pc, browser, stepNo, listeners, summaries,
                   step_results, all_success, result, log>>

(* an exception reaches the step's except branch (lines 156-169); when the *)
(* branch raises itself the outer except branch (182-198) ends the journey *)
StepRaised(msg, evs) ==
    LET h == step_exception_handler(config[stepNo], msg)
    IN  IF h.raised
        THEN /\ browser' = "closed"
             /\ pc' = "done"
             /\ result' = Some(ErrorResult(h.error))
             /\ log' = Logged(evs \o <<"fatal">>)
             /\ UNCHANGED <<stepNo, step_results, all_success>>
        ELSE /\ step_results' = Append(step_results, h.value)
             /\ all_success' = FALSE
             /\ stepNo' = stepNo + 1
             /\ pc' = "loop"
             /\ log' = Logged(evs \o <<"step_error">>)
             /\ UNCHANGED <<browser, result>>

(* mutant: _execute_ai_action lets the agent's exception through *)
ActionExceptionAlwaysEscapes(step) == TRUE

(* whether an exception of the delegated action leaves                     *)
(* _execute_step_action: page.goto's does (lines 202-208), the agent's is  *)
(* caught in _execute_ai_action (lines 248-249) *)
ActionExceptionEscapes(step) == Lower(step.action) = "load_page"

(* _execute_step_action returns or raises (lines 129, 200-249): page.goto  *)
(* raises into the step's except branch, while _execute_ai_action catches  *)
(* what the agent raises and returns *)
ActionReturns ==
    /\ pc = "action"
    /\ \E raised \in BOOLEAN :
          IF raised /\ ActionExceptionEscapes(config[stepNo])
          THEN StepRaised("Timeout 30000ms exceeded.", <<"action_failed">>)
          ELSE /\ pc' = "sleep"
               /\ log' = Logged(IF raised THEN <<"action_failed">> ELSE <<"action_ok">>)
               /\ UNCHANGED <<browser, stepNo, step_results, all_success, result>>
    /\ UNCHANGED <<classified, config, monitors, listeners, summaries, last_response>>

(* mutant: the last step's verdict replaces the journey's *)
NextAllSuccessLastOnly(all, success) == success

(* lines 145-146: all_success after a validated step *)
NextAllSuccess(all, success) == all /\ success

(* mutant: every step is validated against the first step's monitor *)
StepMonitorFirst == IF monitors = <<>> THEN 0 ELSE 1

(* the monitor the local `monitor` is bound to (line 124): the one created *)
(* last *)
StepMonitor == Len(monitors)

(* lines 132-154: asyncio.sleep returns, monitor.stop() computes the       *)
(* summary and _validate_step_pixels the StepResult; what it raises goes   *)
(* to the step's except branch *)
SettleAndValidate ==
    /\ pc = "sleep"
    /\ LET m == monitors[StepMonitor]
           step_summary == stop(m)
           v == validate_step_pixels(config[stepNo], m, step_summary)
       IN  IF v.raised
           THEN StepRaised(v.error, <<"settled", "closed", "validate_raised">>)
           ELSE /\ step_results' = Append(step_results, v.value)
                /\ all_success' = NextAllSuccess(all_success, v.value.success)
                /\ stepNo' = stepNo + 1
                /\ pc' = "loop"
                /\ log' = Logged(<<"settled", "closed", "validated">>)
                /\ UNCHANGED <<browser, result>>
    /\ summaries' = [summaries EXCEPT ![StepMonitor] =
                         Append(@, stop(monitors[StepMonitor]))]
    /\ UNCHANGED <<classified, config, monitors, listeners, last_response>>

(* lines 171-180: the loop is over, the browser is closed and the result   *)
(* returned *)
FinishJourney ==
    /\ pc = "loop"
    /\ stepNo > Len(config)
    /\ browser' = "closed"
    /\ result' = Some(FinalResult(all_success, step_results))
    /\ pc' = "done"
    /\ log' = Logged(<<"returned">>)
    /\ UNCHANGED <<classified, config, stepNo, monitors, listeners, summaries, last_response,
                   step_results, all_success>>

(* the journey's task is cancelled while it waits in line 129 or 132:      *)
(* CancelledError is no Exception, so neither except branch runs and the   *)
(* error leaves validate_test_case *)
Cancel ==
    /\ pc \in {"action", "sleep"}
    /\ pc' = "cancelled"
    /\ log' = Logged(<<"cancelled">>)
    /\ UNCHANGED <<classified, config, browser, stepNo, monitors, listeners, summaries,
                   last_response, step_results, all_success, result>>

Next ==
    \/ EnterPlaywright
    \/ LaunchBrowser
    \/ StartStep
    \/ \E url \in JourneyUrls : RequestsBelow(MaxRequests) /\ PageRequest(url)
    \/ \E url \in JourneyUrls, status \in JourneyStatuses : PageResponse(url, status)
    \/ ActionReturns
    \/ SettleAndValidate
    \/ FinishJourney
    \/ Cancel

Spec == Init /\ [][Next]_vars

----------------------------------------------------------------------------
(* SpecMonitor: one capture session, from the moment its step waits for    *)
(* the delegated action, under any interleaving of request and response    *)
(* events.                                                                 *)

MonitorInit ==
    /\ config = <<Step("buy", "Click the buy button", Dict(<<>>))>>
    /\ pc = "action"
    /\ browser = "open"
    /\ stepNo = 1
    /\ monitors = <<NewMonitor>>
    /\ listeners = {1}
    /\ summaries = <<<<>>>>
    /\ last_response = None
    /\ classified = None
    /\ step_results = <<>>
    /\ all_success = TRUE
    /\ result = None
    /\ log = <<[ev |-> "page", step |-> 0], [ev |-> "open", step |-> 1]>>

MonitorNext ==
    \/ \E url \in MonitorUrls : RequestsBelow(MaxSessionRequests) /\ PageRequest(url)
    \/ \E url \in MonitorUrls, status \in MonitorStatuses : PageResponse(url, status)

SpecMonitor == MonitorInit /\ [][MonitorNext]_vars

----------------------------------------------------------------------------
(* SpecSession: one capture session as its owner uses it, calling          *)
(* start_interaction_phase and stop while the page sends requests.         *)

(* the owner of monitor i calls its start_interaction_phase() *)
BeginInteraction(i) ==
    /\ monitors' = [monitors EXCEPT ![i] = start_interaction_phase(@)]
    /\ UNCHANGED <<classified, config, pc, browser, stepNo, listeners, summaries,
                   last_response, step_results, all_success, result, log>>

(* the owner of monitor i calls its stop() and keeps the summary *)
Stop(i) ==
    /\ Len(summaries[i]) < MaxCloses
    /\ summaries' = [summaries EXCEPT ![i] = Append(@, stop(monitors[i]))]
    /\ UNCHANGED <<classified, config, pc, browser, stepNo, monitors, listeners,
                   last_response, step_results, all_success, result, log>>

SessionNext ==
    \/ \E url \in SessionUrls : RequestsBelow(MaxSessionRequests) /\ PageRequest(url)
    \/ BeginInteraction(1)
    \/ Stop(1)

SpecSession == MonitorInit /\ [][SessionNext]_vars

----------------------------------------------------------------------------
(* SpecMatcher: _validate_step_pixels on drawn inputs.  A one-step journey *)
(* stands at the end of its settle delay, its monitor having captured a    *)
(* drawn sequence of requests; the step's expectations are drawn too.      *)

RECURSIVE CaptureAll(_, _)
CaptureAll(m, urls) ==
    IF urls = <<>> THEN m ELSE CaptureAll(capture_request(m, urls[1]), Tail(urls))

MatcherExpectations ==
    { Expect("facebook", NoConfig),
      Expect("Facebook Pixel Events", NoConfig),
      Expect("GA4", NoConfig),
      Expect("", NoConfig),
      Expect("FACEBOOK", WithUrlParams(<<Param("ev", "Purchase")>>)),
      Expect("Facebook Pixel", WithUrlParams(<<Param("ev", "Purchase"), Param("id", "1")>>)),
      Expect("Pixel", WithUrlParams(<<Param("ev", "Pur")>>)),
      Expect("google", WithUrlParams(<<Param("id", "1")>>)),
      Expect("Google Analytics", WithUrlParams(<<Param("ev", "Purchase Done")>>)),
      Expect("Hotjar", WithUrlParams(<<Param("ev", "Purchase")>>)),
      Expect("facebook pixel", WithUrlParams(<<Param("ev", "")>>)) }

MatcherSteps ==
    {Step("check", "load_page", Dict(<<>>)),
     Step("check", "load_page",
          Dict(<<Expect("Facebook", WithUrlParams(<<ParamWithoutValue("ev")>>))>>))}
    \cup {Step("check", "load_page", Dict(<<e>>)) : e \in MatcherExpectations}
    \cup {Step("check", "load_page", Dict(<<e, f>>)) :
            e \in {x \in MatcherExpectations : x.config = NoConfig},
            f \in {x \in MatcherExpectations : x.config # NoConfig}}
    \cup {Step("check", "load_page", Dict(<<f, e>>)) :
            e \in {x \in MatcherExpectations : x.vendor \in {"facebook", "GA4"}},
            f \in {x \in MatcherExpectations : x.vendor \in {"FACEBOOK", "Hotjar"}}}

MatcherInit ==
    /\ config \in {<<s>> : s \in MatcherSteps}
    /\ pc = "sleep"
    /\ browser = "open"
    /\ stepNo = 1
    /\ monitors \in {<<CaptureAll(NewMonitor, urls)>> :
                        urls \in SeqsUpTo(MatcherUrls, MaxRequests)}
    /\ listeners = {1}
    /\ summaries = <<<<>>>>
    /\ last_response = None
    /\ classified = None
    /\ step_results = <<>>
    /\ all_success = TRUE
    /\ result = None
    /\ log = <<[ev |-> "page", step |-> 0], [ev |-> "open", step |-> 1],
               [ev |-> "action_ok", step |-> 1]>>

MatcherNext ==
    \/ SettleAndValidate
    \/ FinishJourney

SpecMatcher == MatcherInit /\ [][MatcherNext]_vars

----------------------------------------------------------------------------
(* SpecClassifier: is_tracking_request and classify_pixel on drawn URLs.   *)

ClassifierHosts ==
    { "www.google-analytics.com", "www.googletagmanager.com", "www.facebook.com",
      "connect.facebook.net", "static.hotjar.com", "cdn.segment.com",
      "api.segment.io", "api.mixpanel.com", "api.amplitude.com", "a.klaviyo.com",
      "ct.pinterest.com", "analytics.tiktok.com", "px.ads.linkedin.com",
      "analytics.twitter.com", "tr.snapchat.com", "sp.cargurus.com",
      "c.snowplowanalytics.com", "example.com" }

ClassifierPaths ==
    { "/g/collect?v=2", "/collect?v=1", "/collect?v=1&dl=/g/", "/j/collect",
      "/tr?ev=Purchase", "/gtag/js?id=G-1", "/gtag.js", "/en_US/fbevents.js",
      "/v3/pixel?e=1", "/px", "/i/adsct", "/i?e=pv", "/track?e=1",
      "/analytics?x=1", "/events?x=1", "/beacon", "/app.js",
      "/?utm_source=a", "/app.js?a=1&gclid=1", "/?fbclid=1" }

ClassifierUrls == {"https://" \o h \o t : h \in ClassifierHosts, t \in ClassifierPaths}

ClassifierInit ==
    /\ config = <<>>
    /\ pc = "start"
    /\ browser = "unbound"
    /\ stepNo = 0
    /\ monitors = <<>>
    /\ listeners = {}
    /\ summaries = <<>>
    /\ last_response = None
    /\ classified \in {Some([url |-> u, is_tracking |-> None, vendor |-> None]) :
                          u \in ClassifierUrls}
    /\ step_results = <<>>
    /\ all_success = TRUE
    /\ result = None
    /\ log = <<>>

(* is_tracking_request(url) and classify_pixel(url) are called *)
Classify ==
    /\ classified # None
    /\ classified[1].vendor = None
    /\ classified' = Some([url |-> classified[1].url,
                           is_tracking |-> Some(is_tracking_request(classified[1].url)),
                           vendor |-> Some(classify_pixel(classified[1].url))])
    /\ UNCHANGED <<config, pc, browser, stepNo, monitors, listeners, summaries,
                   last_response, step_results, all_success, result, log>>

ClassifierNext == Classify

SpecClassifier == ClassifierInit /\ [][ClassifierNext]_vars

----------------------------------------------------------------------------
(* Properties.                                                             *)

Returned == result # None
TheResult == result[1]

(* the events the journey logged for step k *)
Events(k) == {log[i].ev : i \in {j \in 1..Len(log) : log[j].step = k}}
PageObtained == "page" \in Events(0)
(* step k is over: its StepResult is appended or the journey ended in it *)
StepOver(k) == Events(k) \cap {"validated", "step_error", "fatal"} # {}

(* an exception reached the except branch of step k *)
StepRaisedAt(k) == Events(k) \cap {"step_error", "fatal"} # {}

(* C1: whenever the page was obtained, whatever steps raise, the returned  *)
(* ValidationResult holds exactly one StepResult per declared step, in     *)
(* declared order, and the StepResult of each step that raised has         *)
(* success = false and its error set.                                      *)
C1_EveryStepReported ==
    (PageObtained /\ pc = "done") =>
        /\ Returned
        /\ Len(TheResult.step_results) = Len(config)
        /\ \A k \in 1..Len(TheResult.step_results) :
              /\ TheResult.step_results[k].step_name = config[k].name
              /\ TheResult.step_results[k].action = config[k].action
              /\ StepRaisedAt(k)
                 => /\ ~TheResult.step_results[k].success
                    /\ TheResult.step_results[k].error # None

(* C2: a response for a tracking URL is attached to the most recently      *)
(* recorded request with that URL that has no response yet, and to no      *)
(* other request; when there is none, nothing changes.  With R1 and R2     *)
(* in flight for one URL the first response goes to R2, the second to R1.  *)
AttachedToNewest(i, url, status) ==
    LET rs == monitors[i].requests
        unresolved == {k \in 1..Len(rs) : rs[k].url = url /\ rs[k].status_code = None}
    IN  IF unresolved = {} THEN monitors'[i] = monitors[i]
        ELSE LET newest == CHOOSE k \in unresolved : \A j \in unresolved : j <= k
             IN  /\ Len(monitors'[i].requests) = Len(rs)
                 /\ monitors'[i].requests[newest].status_code = Some(status)
                 /\ monitors'[i].requests[newest].successful # None
                 /\ \A k \in 1..Len(rs) : k # newest => monitors'[i].requests[k] = rs[k]

C2_NewestUnresolvedWins ==
    [][\A url \in MonitorUrls, status \in MonitorStatuses :
          (PageResponse(url, status) /\ is_tracking_request(url))
              => \A i \in listeners : AttachedToNewest(i, url, status)]_vars

(* R2 has its response while the older R1, same URL, still waits *)
C2_Witness ==
    \E i \in 1..Len(monitors) : \E a, b \in 1..Len(monitors[i].requests) :
        /\ a < b
        /\ monitors[i].requests[a].url = monitors[i].requests[b].url
        /\ monitors[i].requests[a].status_code = None
        /\ monitors[i].requests[b].status_code = Some(404)

(* the log of monitor i holds a request with this url and no response yet *)
HasUnresolved(i, url) ==
    \E k \in 1..Len(monitors[i].requests) :
        /\ monitors[i].requests[k].url = url
        /\ monitors[i].requests[k].status_code = None

(* C16: a response for which the log holds no request with equal URL that  *)
(* is still unresolved is discarded: the request log and every field of    *)
(* every TrackedRequest stay as they are.                                  *)
C16_OrphanResponseDiscarded ==
    [][\A url \in MonitorUrls, status \in MonitorStatuses :
          PageResponse(url, status)
              => \A i \in listeners :
                    ~HasUnresolved(i, url) => monitors'[i] = monitors[i]]_vars

(* the last response was for PurchaseUrl, which the session never          *)
(* requested; the request it holds, of another URL, still waits *)
C16_Witness ==
    /\ last_response = Some([url |-> PurchaseUrl, status |-> 200])
    /\ Len(monitors[1].requests) = 1
    /\ monitors[1].requests[1].url = ViewUrl
    /\ monitors[1].requests[1].status_code = None

(* the response data of request k of monitor i *)
ResponseData(i, k) ==
    <<monitors[i].requests[k].status_code,
      monitors[i].requests[k].response_headers,
      monitors[i].requests[k].successful>>

(* C17: a TrackedRequest receives response data at most once: once its     *)
(* status_code, response_headers and successful are set, no later event,   *)
(* a further response for the same URL included, changes them, in any      *)
(* interleaving of request and response events.                            *)
C17_ResponseDataSetOnce ==
    [][\A i \in 1..Len(monitors) : \A k \in 1..Len(monitors[i].requests) :
          monitors[i].requests[k].status_code # None
              => ResponseData(i, k)' = ResponseData(i, k)]_vars

(* the request was answered with 404; a later response for its URL, with   *)
(* 200, left it as it was *)
C17_Witness ==
    /\ last_response = Some([url |-> PurchaseUrl, status |-> 200])
    /\ \E k \in 1..Len(monitors[1].requests) :
          /\ monitors[1].requests[k].url = PurchaseUrl
          /\ ResponseData(1, k) = <<Some(404), Some(ResponseHeaders), Some(FALSE)>>
    /\ ~HasUnresolved(1, PurchaseUrl)

----------------------------------------------------------------------------
(* The matcher's properties, stated for the one step of SpecMatcher once   *)
(* _validate_step_pixels has returned its StepResult.                      *)

Validated == "validated" \in Events(1)
Declared == config[1].expect_pixels.items
DeclaredParams(e) == IF "url_params" \in e.config.keys THEN e.config.url_params ELSE <<>>
Captured == {monitors[1].requests[i] : i \in 1..Len(monitors[1].requests)}
Detected == {classify_pixel(r.url) : r \in {x \in Captured : x.is_tracking}}

(* one label contains the other after lowercasing both *)
FuzzyMatch(a, b) ==
    LET la == Lower(a)
        lb == Lower(b)
    IN  \/ \E i \in 1..(Len(lb) - Len(la) + 1) : SubSeq(lb, i, i + Len(la) - 1) = la
        \/ \E i \in 1..(Len(la) - Len(lb) + 1) : SubSeq(la, i, i + Len(lb) - 1) = lb

(* the captured requests in the lists of the detected vendors that match   *)
(* the expected label *)
MatchedRequests(label) ==
    {r \in Captured : r.is_tracking /\ FuzzyMatch(label, classify_pixel(r.url))}

(* the values bound to name by the name=value fields of the query string   *)
(* of url, decoded; BoundValues keeps an empty value, NonBlankValues not   *)
QueryFields(url) == Range(Split(UrlQuery(url), "&"))
BoundValues(url, name) ==
    {UnquotePlus(SubSeq(f, Find(f, "=", 1) + 1, Len(f))) :
        f \in {g \in QueryFields(url) :
                 /\ Find(g, "=", 1) # 0
                 /\ UnquotePlus(SubSeq(g, 1, Find(g, "=", 1) - 1)) = name}}
NonBlankValues(url, name) == BoundValues(url, name) \ {""}

(* C3: an expectation with URL-parameter constraints is in passedVendors   *)
(* iff some captured request of a fuzzily matched detected vendor has, for *)
(* every declared parameter, the expected value equal to one of the values *)
(* bound to that name in its query string; otherwise it is in              *)
(* failedVendors.                                                          *)
C3_ParamsMatchBoundValues ==
    Validated =>
        \A k \in 1..Len(Declared) :
            DeclaredParams(Declared[k]) # <<>> =>
                LET e == Declared[k]
                    ps == DeclaredParams(e)
                    some == \E r \in MatchedRequests(e.vendor) :
                                \A j \in 1..Len(ps) :
                                    ps[j].value \in BoundValues(r.url, ps[j].name)
                IN  /\ (e.vendor \in Range(step_results[1].passed_pixels)) <=> some
                    /\ (e.vendor \in Range(step_results[1].failed_pixels)) <=> ~some

(* the same with the empty values left out: what the code computes *)
C3_ParamsMatchNonBlankValues ==
    Validated =>
        \A k \in 1..Len(Declared) :
            DeclaredParams(Declared[k]) # <<>> =>
                LET e == Declared[k]
                    ps == DeclaredParams(e)
                    some == \E r \in MatchedRequests(e.vendor) :
                                \A j \in 1..Len(ps) :
                                    ps[j].value \in NonBlankValues(r.url, ps[j].name)
                IN  /\ (e.vendor \in Range(step_results[1].passed_pixels)) <=> some
                    /\ (e.vendor \in Range(step_results[1].failed_pixels)) <=> ~some

(* C4: an expectation without URL-parameter constraints passes iff some    *)
(* detected vendor label contains the expected label or is contained in    *)
(* it, both lowercased; and the verdict is the same with the expected and  *)
(* the detected label swapped.                                             *)
NoParams(label) == [vendor |-> label, url_params |-> <<>>]
Only(label) == <<[vendor |-> label, requests |-> <<>>]>>

C4_FuzzyMatchSymmetric ==
    Validated =>
        \A k \in 1..Len(Declared) :
            DeclaredParams(Declared[k]) = <<>> =>
                LET label == Declared[k].vendor
                IN  /\ (label \in Range(step_results[1].passed_pixels))
                          <=> \E d \in Detected : FuzzyMatch(label, d)
                    /\ \A d \in Detected :
                          PixelPasses(NoParams(label), monitors[1], Only(d))
                              <=> PixelPasses(NoParams(d), monitors[1], Only(label))

(* the expectation is longer than the detected label that it contains *)
C4_Witness ==
    /\ Validated
    /\ "Facebook Pixel Events" \in Range(step_results[1].passed_pixels)
    /\ "Facebook Pixel" \in Detected

(* C5: every declared vendor is in exactly one of passedVendors and        *)
(* failedVendors, both in declaration order; success holds iff every       *)
(* declared vendor passed, so always when nothing is declared.             *)
DeclaredVendors == [k \in 1..Len(Declared) |-> Declared[k].vendor]

C5_PassedFailedPartition ==
    Validated =>
        LET sr == step_results[1]
            passed == Range(sr.passed_pixels)
            failed == Range(sr.failed_pixels)
        IN  /\ passed \cup failed = Range(DeclaredVendors)
            /\ passed \cap failed = {}
            /\ sr.passed_pixels = SelectSeq(DeclaredVendors, LAMBDA v : v \in passed)
            /\ sr.failed_pixels = SelectSeq(DeclaredVendors, LAMBDA v : v \in failed)
            /\ sr.success <=> (\A v \in Range(DeclaredVendors) : v \in passed)
            /\ Declared = <<>> => sr.success

(* two declared vendors, the first failed and the second passed *)
C5_Witness ==
    /\ Validated
    /\ Len(Declared) = 2
    /\ step_results[1].failed_pixels = <<Declared[1].vendor>>
    /\ step_results[1].passed_pixels = <<Declared[2].vendor>>
    /\ ~step_results[1].success

----------------------------------------------------------------------------
(* The journey's properties (Spec).                                        *)

StepResultsOf(r) == {r.step_results[k] : k \in 1..Len(r.step_results)}

(* C6, as claimed: in a returned ValidationResult every StepResult has     *)
(* success iff its failedVendors is empty, the StepResults of steps that   *)
(* raised included.                                                        *)
C6_SuccessIffNoFailedVendors ==
    Returned =>
        \A sr \in StepResultsOf(TheResult) : sr.success <=> (sr.failed_pixels = <<>>)

(* C6, amended: success iff failedVendors is empty and no error is set; a  *)
(* step that raised has success = false, an empty failedVendors and its    *)
(* error set.                                                              *)
C6_SuccessIffNoFailedVendorsNoError ==
    Returned =>
        /\ \A sr \in StepResultsOf(TheResult) :
              sr.success <=> (sr.failed_pixels = <<>> /\ sr.error = None)
        /\ \A k \in 1..Len(TheResult.step_results) :
              StepRaisedAt(k) =>
                  /\ ~TheResult.step_results[k].success
                  /\ TheResult.step_results[k].failed_pixels = <<>>
                  /\ TheResult.step_results[k].error # None

(* a returned result with a step that raised and a step that passed *)
C6_Witness ==
    /\ Returned
    /\ \E sr \in StepResultsOf(TheResult) : sr.error # None
    /\ \E sr \in StepResultsOf(TheResult) : sr.success

(* C7: a returned ValidationResult has success iff no top-level error is   *)
(* set and every StepResult has success; so with no step and no error.     *)
C7_JourneySuccess ==
    Returned =>
        (TheResult.success <=>
            (TheResult.error = None /\ \A sr \in StepResultsOf(TheResult) : sr.success))

(* two steps reported, the first failed and the second passed *)
C7_Witness ==
    /\ Returned
    /\ TheResult.error = None
    /\ Len(TheResult.step_results) = 2
    /\ ~TheResult.step_results[1].success
    /\ TheResult.step_results[2].success
    /\ ~TheResult.success

(* C8: when the browser/page session cannot be established no raw          *)
(* exception leaves validate_test_case: it returns a ValidationResult with *)
(* success = false and the top-level error set, and no step is executed.   *)
C8_NoRawException ==
    (pc \in {"done", "raised"} /\ ~PageObtained) =>
        /\ pc = "done"
        /\ Returned
        /\ ~TheResult.success
        /\ TheResult.error # None
        /\ TheResult.step_results = <<>>
        /\ monitors = <<>>

C10_ActionFailureReported ==
    \A k \in 1..Len(config) :
        ("action_failed" \in Events(k) /\ pc = "done") =>
            /\ Returned
            /\ Len(TheResult.step_results) = Len(config)
            /\ ~TheResult.step_results[k].success
            /\ TheResult.step_results[k].error # None

----------------------------------------------------------------------------
(* The capture session's lifetime.                                         *)

(* stop() has returned for monitor i *)
Closed(i) == summaries[i] # <<>>

(* C11: once stop() has returned for a session, nothing the page delivers  *)
(* afterwards, a later step's traffic included, appends to the session's   *)
(* request log or changes one of its TrackedRequests.                      *)
C11_NoCaptureAfterClose ==
    [][\A i \in 1..Len(monitors) :
          Closed(i) => monitors'[i].requests = monitors[i].requests]_vars

(* the journey has left step k: its StepResult is appended, the journey    *)
(* ended in it or the cancellation left validate_test_case *)
StepLeft(k) == Events(k) \cap {"validated", "step_error", "fatal", "cancelled"} # {}

(* C12: on every exit path from a step (normal completion, an exception of *)
(* the action or of validation, cancellation of the journey) the step's    *)
(* capture session is closed and its event subscription released before    *)
(* the journey moves on or the cancellation propagates.                    *)
C12_ClosedOnEveryExit ==
    \A k \in 1..Len(monitors) :
        StepLeft(k) => (Closed(k) /\ k \notin listeners)

(* the weaker statement that stop() at least was called on every exit path *)
C12_StopCalledOnEveryExit ==
    \A k \in 1..Len(monitors) : StepLeft(k) => Closed(k)

(* the sessions opened and not yet closed: stop() has not returned *)
OpenSessions == {k \in 1..Len(monitors) : ~Closed(k)}

(* the sessions still subscribed to the page's events *)
SubscribedSessions == {k \in 1..Len(monitors) : k \in listeners}

(* C13: at every point of a journey at most one capture session is open:   *)
(* the session of step k is closed before the session of step k+1 is       *)
(* opened, whatever the outcome of step k.                                 *)
C13_AtMostOneOpenSession ==
    /\ Cardinality(OpenSessions) <= 1
    /\ Cardinality(SubscribedSessions) <= 1

(* the first conjunct alone: at most one session whose stop() is pending *)
C13_AtMostOneUnstoppedSession == Cardinality(OpenSessions) <= 1

----------------------------------------------------------------------------
(* The capture session's phase and summaries (SpecSession).                *)

PhaseOf(i) == monitors[i].current_phase

(* C14: a session's phase is page_load when the session is created; it     *)
(* changes only through start_interaction_phase, to user_interaction, and  *)
(* never returns to page_load; a second start_interaction_phase leaves the *)
(* phase and the request log as they are.                                  *)
C14_PhaseMonotonic ==
    /\ \A i \in 1..Len(monitors) : PhaseOf(i) = "page_load"
    /\ [](\A i \in 1..Len(monitors) :
            PhaseOf(i) = "user_interaction"
                => start_interaction_phase(monitors[i]) = monitors[i])
    /\ [][\A i \in 1..Len(monitors) :
            /\ PhaseOf(i) = "user_interaction" => PhaseOf(i)' = "user_interaction"
            /\ PhaseOf(i)' # PhaseOf(i)
                   => (BeginInteraction(i) /\ PhaseOf(i)' = "user_interaction")]_vars

(* the phase was switched between two requests of the session *)
C14_Witness ==
    /\ PhaseOf(1) = "user_interaction"
    /\ Len(monitors[1].requests) = 2
    /\ monitors[1].requests[1].phase = "page_load"
    /\ monitors[1].requests[2].phase = "user_interaction"

(* the summary of a session that captured nothing *)
EmptySummary == get_summary(NewMonitor)

(* C15: a second stop() on a session changes nothing of the session and    *)
(* returns an empty-but-valid summary: one without requests, or at least   *)
(* one that adds nothing to what the first stop() returned.                *)
C15_SecondCloseEmpty ==
    \A i \in 1..Len(summaries) : \A k \in 2..Len(summaries[i]) :
        \/ summaries[i][k] = EmptySummary
        \/ summaries[i][k] = summaries[i][k - 1]

(* the stricter reading: the second summary holds no request at all *)
C15_SecondCloseHoldsNothing ==
    \A i \in 1..Len(summaries) : \A k \in 2..Len(summaries[i]) :
        summaries[i][k] = EmptySummary

(* what summary k of monitor i shows to its holder: the lists of            *)
(* pixels_by_vendor hold the monitor's TrackedRequest objects themselves,   *)
(* the counts and the timeline hold values                                  *)
SummaryData(i, k) ==
    LET s == summaries[i][k]
    IN  [s EXCEPT !.pixels_by_vendor =
            [j \in 1..Len(s.pixels_by_vendor) |->
                [vendor |-> s.pixels_by_vendor[j].vendor,
                 requests |->
                    [n \in 1..Len(s.pixels_by_vendor[j].requests) |->
                        monitors[i].requests[s.pixels_by_vendor[j].requests[n]]]]]]

(* C18: the summary stop() returned is an immutable copy: nothing that     *)
(* happens afterwards (a late response, a further request, a phase switch) *)
(* changes its counts, its per-vendor TrackedRequest data or its timeline. *)
C18_SummaryImmutable ==
    [][\A i \in 1..Len(summaries) : \A k \in 1..Len(summaries[i]) :
          SummaryData(i, k)' = SummaryData(i, k)]_vars

(* the tracking requests the log of monitor i held when it held n requests *)
TrackingAmong(i, n) == {r \in 1..n : monitors[i].requests[r].is_tracking}

(* C19: in every summary the keys of pixels_by_vendor are exactly the      *)
(* vendor labels classify_pixel gives the session's tracking requests,     *)
(* every tracking request is in exactly one list, the list of its vendor,  *)
(* and every list is in capture order.                                     *)
C19_VendorGroups ==
    \A i \in 1..Len(summaries) : \A k \in 1..Len(summaries[i]) :
        LET s == summaries[i][k]
            groups == s.pixels_by_vendor
            tracking == TrackingAmong(i, s.total_requests)
        IN  /\ \A a, b \in 1..Len(groups) :
                  groups[a].vendor = groups[b].vendor => a = b
            /\ {groups[a].vendor : a \in 1..Len(groups)}
                   = {VendorOf[monitors[i].requests[r].url] : r \in tracking}
            /\ \A r \in tracking :
                  \E a \in 1..Len(groups) :
                      /\ groups[a].vendor = VendorOf[monitors[i].requests[r].url]
                      /\ Cardinality({n \in 1..Len(groups[a].requests) :
                                         groups[a].requests[n] = r}) = 1
                      /\ \A b \in 1..Len(groups) :
                            b # a => r \notin Range(groups[b].requests)
            /\ \A a \in 1..Len(groups) :
                  /\ Range(groups[a].requests) \subseteq tracking
                  /\ \A n \in 1..(Len(groups[a].requests) - 1) :
                        groups[a].requests[n] < groups[a].requests[n + 1]

(* a summary of two vendors, a request of the second vendor captured       *)
(* between the two requests of the first *)
C19_Witness ==
    \E k \in 1..Len(summaries[1]) :
        summaries[1][k].pixels_by_vendor
            = <<[vendor |-> "Facebook Pixel", requests |-> <<1, 3>>],
                [vendor |-> "Google Tag Manager", requests |-> <<2>>]>>

----------------------------------------------------------------------------
(* The classifier's properties (SpecClassifier).                           *)

Answered == classified # None /\ classified[1].vendor # None
AskedUrl == classified[1].url
AnsweredVendor == classified[1].vendor[1]
AnsweredTracking == classified[1].is_tracking[1]

(* the vendors whose classification pattern the url matches *)
VendorsMatching(url) ==
    {classifications[k].vendor :
        k \in {j \in 1..Len(classifications) : Search(classifications[j].pattern, url)}}

(* the url matches one of the detection patterns *)
DetectionMatches(url) ==
    \E k \in 1..Len(tracking_patterns) : Search(tracking_patterns[k], url)

(* C20: for every URL that matches a vendor's classification pattern,      *)
(* classify_pixel returns such a vendor and is_tracking_request is true;   *)
(* for every URL that matches detection patterns only, classify_pixel      *)
(* returns "Generic Tracking" and is_tracking_request is true.             *)
C20_ClassifiedIsTracking ==
    Answered =>
        /\ VendorsMatching(AskedUrl) # {}
               => (AnsweredVendor \in VendorsMatching(AskedUrl) /\ AnsweredTracking)
        /\ (VendorsMatching(AskedUrl) = {} /\ DetectionMatches(AskedUrl))
               => (AnsweredVendor = "Generic Tracking" /\ AnsweredTracking)

(* the same for the URLs that hold "gtag" only where "gtag/js" follows     *)
C20_ClassifiedIsTrackingButBareGtag ==
    (Answered /\ (Contains(AskedUrl, "gtag") => Contains(AskedUrl, "gtag/js")))
        => C20_ClassifiedIsTracking

(* rule k of classifications matches the url *)
RuleMatches(k, url) == Search(classifications[k].pattern, url)

(* C21: classify_pixel is total and first-match: for every URL it returns  *)
(* the label of the first rule of classifications, in declared order,      *)
(* whose pattern matches, and "Generic Tracking" when no rule matches; the *)
(* label is never empty.                                                   *)
C21_FirstMatchTotal ==
    Answered =>
        /\ AnsweredVendor # ""
        /\ \/ /\ \A k \in 1..Len(classifications) : ~RuleMatches(k, AskedUrl)
              /\ AnsweredVendor = "Generic Tracking"
           \/ \E k \in 1..Len(classifications) :
                 /\ RuleMatches(k, AskedUrl)
                 /\ \A j \in 1..(k - 1) : ~RuleMatches(j, AskedUrl)
                 /\ AnsweredVendor = classifications[k].vendor

(* a URL that the rules of two vendors match, answered with the earlier    *)
(* rule's label *)
C21_Witness ==
    /\ Answered
    /\ AskedUrl = "https://www.googletagmanager.com/gtag/js?id=G-1"
    /\ {"Google Analytics 4", "Google Tag Manager"} \subseteq VendorsMatching(AskedUrl)
    /\ AnsweredVendor = "Google Analytics 4"

(* the url holds the Analytics domain and, after it, the GA4 collect path *)
IsGa4CollectUrl(url) ==
    LET d == Find(url, "google-analytics.com", 1)
    IN  d # 0 /\ Find(url, "/g/collect", d + Len("google-analytics.com")) # 0

(* C22: every Analytics collect URL that holds the GA4 path segment is     *)
(* classified as "Google Analytics 4", never as "Universal Analytics",     *)
(* although the rules of both start with the same domain pattern.          *)
C22_Ga4BeforeLegacy ==
    (Answered /\ IsGa4CollectUrl(AskedUrl)) =>
        /\ AnsweredVendor = "Google Analytics 4"
        /\ AnsweredVendor # "Universal Analytics"

(* a GA4 collect URL that the Universal Analytics rule matches as well *)
C22_Witness ==
    /\ Answered
    /\ AskedUrl = "https://www.google-analytics.com/g/collect?v=2"
    /\ "Universal Analytics" \in VendorsMatching(AskedUrl)
    /\ AnsweredVendor = "Google Analytics 4"

----------------------------------------------------------------------------
(* The request log (SpecSession).                                          *)

(* C23: a request event appends exactly one TrackedRequest, tagged with    *)
(* the phase current at that moment and with is_tracking as                *)
(* is_tracking_request answers; the phase of an earlier entry never        *)
(* changes; so in every log the page_load requests precede the             *)
(* user_interaction requests.                                              *)
C23_RequestTaggedWithCurrentPhase ==
    /\ [](\A i \in 1..Len(monitors) : \A a, b \in 1..Len(monitors[i].requests) :
            (/\ monitors[i].requests[a].phase = "page_load"
             /\ monitors[i].requests[b].phase = "user_interaction") => a < b)
    /\ [][(\A url \in SessionUrls :
              PageRequest(url) =>
                  \A i \in listeners :
                      LET old == monitors[i].requests
                          new == monitors'[i].requests
                      IN  /\ Len(new) = Len(old) + 1
                          /\ SubSeq(new, 1, Len(old)) = old
                          /\ new[Len(new)].url = url
                          /\ new[Len(new)].phase = PhaseOf(i)
                          /\ new[Len(new)].is_tracking = is_tracking_request(url))
           /\ (\A j \in 1..Len(monitors) : \A k \in 1..Len(monitors[j].requests) :
                 monitors'[j].requests[k].phase = monitors[j].requests[k].phase)]_vars

(* a tracking and a non-tracking request of the page_load phase, then a    *)
(* request of the user_interaction phase *)
C23_Witness ==
    /\ Len(monitors[1].requests) = 3
    /\ monitors[1].requests[1].phase = "page_load"
    /\ monitors[1].requests[1].is_tracking
    /\ monitors[1].requests[2].phase = "page_load"
    /\ ~monitors[1].requests[2].is_tracking
    /\ monitors[1].requests[3].phase = "user_interaction"

----------------------------------------------------------------------------
(* The order of a step's events and the isolation of steps (Spec).         *)

(* the events the journey logged for step k, in order *)
EventSeq(k) ==
    LET of_k == SelectSeq(log, LAMBDA e : e.step = k)
    IN  [n \in 1..Len(of_k) |-> of_k[n].ev]

(* C24: in a step that completes without an exception the events occur in *)
(* this order: session opened, action returned, settle delay elapsed,      *)
(* session closed and summary computed, expectations validated, StepResult *)
(* appended; no summary is computed before the settle delay has elapsed    *)
(* and the next step's session is not opened before the StepResult is      *)
(* appended.                                                               *)
C24_StepEventOrder ==
    \A k \in 1..Len(monitors) :
        /\ "validated" \in Events(k)
               => /\ EventSeq(k) \in
                        {<<"open", a, "settled", "closed", "validated">> :
                            a \in {"action_ok", "action_failed"}}
                  /\ Len(step_results) >= k
                  /\ Len(summaries[k]) = 1
        /\ Closed(k) => "settled" \in Events(k)
        /\ k > 1 => (StepOver(k - 1) /\ Len(step_results) >= k - 1)

(* a journey of two steps, both validated, has returned *)
C24_Witness ==
    /\ pc = "done"
    /\ Len(config) = 2
    /\ "validated" \in Events(1)
    /\ "validated" \in Events(2)
    /\ Len(step_results) = 2

(* the vendors of the tracking requests of a log, in order of first        *)
(* appearance *)
RECURSIVE VendorsIn(_)
VendorsIn(requests) ==
    IF requests = <<>> THEN <<>>
    ELSE LET before == VendorsIn(SubSeq(requests, 1, Len(requests) - 1))
             r == requests[Len(requests)]
         IN  IF r.is_tracking /\ VendorOf[r.url] \notin Range(before)
             THEN Append(before, VendorOf[r.url])
             ELSE before

(* C25: each step is validated only against the requests its own fresh     *)
(* session captured between the step's open and close: the session starts  *)
(* with an empty log, its summary and the step's detected vendors cover the *)
(* requests logged up to the close and nothing else, and a request          *)
(* recorded after the close changes neither the summary's counts and lists  *)
(* nor the StepResult.                                                      *)
C25_StepIsolation ==
    [][/\ (Len(monitors') > Len(monitors))
              => monitors'[Len(monitors')].requests = <<>>
       /\ \A k \in 1..Len(summaries) :
             /\ (summaries[k] = <<>> /\ summaries'[k] # <<>>)
                    => /\ k = Len(monitors)
                       /\ summaries'[k][1].total_requests = Len(monitors[k].requests)
                       /\ [a \in 1..Len(summaries'[k][1].pixels_by_vendor) |->
                              summaries'[k][1].pixels_by_vendor[a].vendor]
                             = VendorsIn(monitors[k].requests)
                       /\ (Len(step_results') > Len(step_results)
                           /\ step_results'[Len(step_results')].error = None)
                              => step_results'[Len(step_results')].detected_pixels
                                    = VendorsIn(monitors[k].requests)
             /\ summaries[k] # <<>>
                    => /\ summaries'[k] = summaries[k]
                       /\ \A n \in 1..Len(step_results) :
                             step_results'[n] = step_results[n]]_vars

(* step 1 counted the one request of its window; the request of step 2's   *)
(* window reached the monitor of step 1 too, and step 2 counted only it     *)
C25_Witness ==
    /\ Len(monitors) = 2
    /\ "validated" \in Events(1)
    /\ "validated" \in Events(2)
    /\ summaries[1][1].total_requests = 1
    /\ Len(monitors[1].requests) = 2
    /\ summaries[2][1].total_requests = 1
    /\ step_results[2].detected_pixels = <<"Facebook Pixel">>

(* C26: a step whose configuration omitted expect_pixels succeeds          *)
(* trivially once its action has completed (success = true, no error), and *)
(* the journey goes on: the returned result holds the StepResult of that   *)
(* step and of every step after it.                                        *)
C26_OmittedExpectationsSucceed ==
    \A k \in 1..Len(config) :
        (config[k].expect_pixels = EmptyList /\ "action_ok" \in Events(k)
            /\ StepOver(k))
        => /\ "fatal" \notin Events(k)
           /\ Len(step_results) >= k
           /\ step_results[k].success
           /\ step_results[k].error = None
           /\ pc = "done"
                  => /\ Returned
                     /\ Len(TheResult.step_results) = Len(config)

----------------------------------------------------------------------------
(* The counts of a summary (SpecSession).                                  *)

RECURSIVE GroupSizes(_)
GroupSizes(pixels_by_vendor) ==
    IF pixels_by_vendor = <<>> THEN 0
    ELSE Len(pixels_by_vendor[1].requests) + GroupSizes(Tail(pixels_by_vendor))

(* the count relations of one summary *)
CountsAgree(s) ==
    /\ s.page_load_pixels + s.interaction_pixels = s.tracking_requests
    /\ s.tracking_requests <= s.total_requests
    /\ GroupSizes(s.pixels_by_vendor) = s.tracking_requests
    /\ Len(s.timeline) = s.tracking_requests

----------------------------------------------------------------------------
(* Responses of URLs that are no tracking URLs (SpecMonitor).              *)

(* C28: a response whose URL is_tracking_request rejects modifies no       *)
(* TrackedRequest, also when a request with that URL and no response yet   *)
(* is in the log; so a request with is_tracking = False has status_code,   *)
(* response_headers and successful None in every reachable state.          *)
C28_NonTrackingResponseIgnored ==
    /\ [](\A i \in 1..Len(monitors) : \A k \in 1..Len(monitors[i].requests) :
            ~monitors[i].requests[k].is_tracking
               => /\ monitors[i].requests[k].status_code = None
                  /\ monitors[i].requests[k].response_headers = None
                  /\ monitors[i].requests[k].successful = None)
    /\ [][\A url \in MonitorUrls, status \in MonitorStatuses :
            (~is_tracking_request(url) /\ PageResponse(url, status))
               => monitors' = monitors]_vars

(* the response of the script arrived while its request was in the log,    *)
(* unresolved *)
C28_Witness ==
    /\ last_response # None
    /\ last_response[1].url = ScriptUrl
    /\ ~is_tracking_request(ScriptUrl)
    /\ HasUnresolved(1, ScriptUrl)

----------------------------------------------------------------------------
(* The phase of the sessions of a journey (Spec).                          *)

(* C29: validate_test_case never calls start_interaction_phase: in every   *)
(* journey every session stays in the page_load phase, every captured      *)
(* request is tagged page_load and every step summary has                  *)
(* interaction_pixels = 0 and counts all its pixels as page-load pixels,   *)
(* also for a step whose action is a free-text interaction.                *)
C29_JourneyNeverInteracts ==
    \A i \in 1..Len(monitors) :
        /\ monitors[i].current_phase = "page_load"
        /\ \A k \in 1..Len(monitors[i].requests) :
              monitors[i].requests[k].phase = "page_load"
        /\ \A j \in 1..Len(summaries[i]) :
              /\ summaries[i][j].interaction_pixels = 0
              /\ summaries[i][j].page_load_pixels = summaries[i][j].tracking_requests
              /\ \A n \in 1..Len(summaries[i][j].timeline) :
                    summaries[i][j].timeline[n].phase = "page_load"

(* a free-text step was validated on a summary that holds a pixel fired    *)
(* during the interaction *)
C29_Witness ==
    \E i \in 1..Len(monitors) :
        /\ Lower(config[i].action) # "load_page"
        /\ "action_ok" \in Events(i)
        /\ "validated" \in Events(i)
        /\ summaries[i][1].tracking_requests >= 1
        /\ summaries[i][1].interaction_pixels = 0

====
